---- MODULE Spec2Model ----
(***************************************************************************)
(* Model of dashboard.py: the Streamlit script that loads three CSV files  *)
(* through a memoized loader, halts when the load failed, and otherwise    *)
(* renders the pane selected in the sidebar.  Risk scores are modelled in  *)
(* tenths (0.4 is 4, 0.7 is 7, 1.0 is 10); fractions are <<num, den>>.     *)
(***************************************************************************)
EXTENDS Integers, Sequences, FiniteSets, TLC

\* ------------------------------------------------------------------ bounds
MaxRows == 3
MaxCalls == 2

\* congestion_risk values a simulation_results.csv may hold, in tenths
RiskValues == {0, 4, 5, 7, 9, 10}

\* ------------------------------------------------------- program constants
Threshold == 7
Bins == <<0, 4, 7, 10>>
Labels == <<"Low", "Medium", "High">>
NaN == "NaN"

FileNames == <<"final_merged_dataset.csv", "simulation_results.csv",
               "factor_analysis_loadings.csv">>

MenuOptions == <<"Data Overview", "Monte Carlo Simulation", "Factor Analysis">>
DataOverviewLabel == "Data Overview"
MonteCarloLabelTypo == "Monte Carlo Simulations"
MonteCarloLabel == "Monte Carlo Simulation"
FactorAnalysisLabel == "Factor Analysis"

\* ------------------------------------------------------------------ tables
\* None for a table; a table otherwise.  columns tells whether the derived
\* risk_category column exists (only ever on the SimulationRun table).
None == [present |-> FALSE, rows |-> <<>>, risk_category |-> <<>>,
         columns |-> {}]

Table(rows, cols) == [present |-> TRUE, rows |-> rows, risk_category |-> <<>>,
                      columns |-> cols]

\* contents of final_merged_dataset.csv: <<rain_mm, avg_speed_kmh>> per row
MergedContent == << <<0, 52>>, <<12, 31>> >>
\* contents of factor_analysis_loadings.csv: one row per variable, one
\* loading (in tenths) per factor
FactorsContent == << <<8, -3>>, <<-2, 6>> >>

NoneTriple == <<None, None, None>>

VARIABLES fs, simRows, cache, calls, bodyRuns, bodyRan, pc,
          df_merged, df_sim, df_factors, errFile, options, rendered,
          high_risk_prob, metric, fig_bar, sorted_risk, cdf_y,
          total_records, selected_factor

vars == <<fs, simRows, cache, calls, bodyRuns, bodyRan, pc,
          df_merged, df_sim, df_factors, errFile, options, rendered,
          high_risk_prob, metric, fig_bar, sorted_risk, cdf_y,
          total_records, selected_factor>>

envVars == <<fs, simRows>>
procVars == <<cache, calls, bodyRuns>>
tableVars == <<df_merged, df_sim, df_factors>>
aggVars == <<high_risk_prob, metric, fig_bar, sorted_risk, cdf_y,
             total_records, selected_factor>>

\* ------------------------------------------------------------------ loader
\* pd.read_csv on file i: the table, or the exception it raises
read_csv(s, rows, i) ==
    IF s[i] = "missing" THEN [exc |-> "FileNotFoundError", table |-> None]
    ELSE IF s[i] = "bad" THEN [exc |-> "ParserError", table |-> None]
    ELSE [exc |-> "none",
          table |-> IF i = 1 THEN Table(MergedContent, {"rain_mm", "avg_speed_kmh"})
                    ELSE IF i = 2 THEN Table(rows, {"congestion_risk"})
                    ELSE Table(FactorsContent, {"Factor1", "Factor2"})]

\* index of the first read that raises, 0 when none does
FirstFailing(s) ==
    IF s[1] # "ok" THEN 1 ELSE IF s[2] # "ok" THEN 2
    ELSE IF s[3] # "ok" THEN 3 ELSE 0

\* a variant that keeps the tables read before the missing file
load_data_partial(s, rows) ==
    LET k == FirstFailing(s) IN
    IF k = 0
    THEN [kind |-> "return", msg |-> 0,
          value |-> <<read_csv(s, rows, 1).table, read_csv(s, rows, 2).table,
                      read_csv(s, rows, 3).table>>]
    ELSE IF read_csv(s, rows, k).exc = "FileNotFoundError"
    THEN [kind |-> "return", msg |-> k,
          value |-> [i \in 1..3 |-> IF i < k THEN read_csv(s, rows, i).table
                                    ELSE None]]
    ELSE [kind |-> "raise", msg |-> 0, value |-> NoneTriple]

\* body of load_data: the three reads in order inside try / except
\* FileNotFoundError; any other exception leaves the function
load_data(s, rows) ==
    LET k == FirstFailing(s) IN
    IF k = 0
    THEN [kind |-> "return", msg |-> 0,
          value |-> <<read_csv(s, rows, 1).table, read_csv(s, rows, 2).table,
                      read_csv(s, rows, 3).table>>]
    ELSE IF read_csv(s, rows, k).exc = "FileNotFoundError"
    THEN [kind |-> "return", msg |-> k, value |-> NoneTriple]
    ELSE [kind |-> "raise", msg |-> 0, value |-> NoneTriple]

\* ------------------------------------------------------------- aggregation
\* congestion_risk > 0.7
IsHighRiskGe(x) == x >= Threshold

IsHighRisk(x) == x > Threshold

\* (col > 0.7).mean() * 100 as a fraction; <<0, 0>> is NaN (empty column)
HighRiskProb(col) ==
    LET n == Len(col)
        c == Cardinality({i \in 1..n : IsHighRisk(col[i])})
    IN IF n = 0 THEN <<0, 0>> ELSE <<100 * c, n>>

\* f"{x:.2f}": x rounded to hundredths, ties to even; -1 stands for "nan"
FormatF2(x) ==
    IF x[2] = 0 THEN -1
    ELSE LET num == 100 * x[1]
             q == num \div x[2]
             r == num % x[2]
         IN IF 2 * r < x[2] THEN q
            ELSE IF 2 * r > x[2] THEN q + 1
            ELSE IF q % 2 = 0 THEN q ELSE q + 1

\* pd.cut(x, bins=[0, 0.4, 0.7, 1], labels=[...]): right=True and
\* include_lowest=False are the defaults, so every bin is (lo, hi]
cut(x) ==
    IF \E i \in 1..3 : Bins[i] < x /\ x <= Bins[i + 1]
    THEN Labels[CHOOSE i \in 1..3 : Bins[i] < x /\ x <= Bins[i + 1]]
    ELSE NaN

RECURSIVE Insert(_, _)
Insert(x, s) ==
    IF s = <<>> THEN <<x>>
    ELSE IF x <= Head(s) THEN <<x>> \o s
    ELSE <<Head(s)>> \o Insert(x, Tail(s))

\* Series.sort_values(): a new ascending series, the column itself untouched
RECURSIVE sort_values(_)
sort_values(col) ==
    IF col = <<>> THEN <<>> ELSE Insert(Head(col), sort_values(Tail(col)))

\* a variant that sorts the table by risk before deriving the column
AssignRiskCategorySorted(df) ==
    [df EXCEPT !.rows = sort_values(df.rows),
               !.risk_category = [i \in 1..Len(df.rows) |->
                                     cut(sort_values(df.rows)[i])],
               !.columns = @ \cup {"risk_category"}]

\* df_sim["risk_category"] = pd.cut(...): the table with the derived column
\* assigned, every other column as it was
AssignRiskCategory(df) ==
    [df EXCEPT !.risk_category = [i \in 1..Len(df.rows) |-> cut(df.rows[i])],
               !.columns = @ \cup {"risk_category"}]

\* value_counts() of the categorical column: one count per category, rows
\* without a category (NaN) are dropped
value_counts(cat) ==
    [l \in {Labels[i] : i \in 1..3} |->
        Cardinality({i \in 1..Len(cat) : cat[i] = l})]

\* reset_index(drop=True): the index becomes 0..n-1
RangeIndex(n) == [k \in 1..n |-> k - 1]

\* a variant that ranks from 1
CdfYOneBased(s) == [k \in 1..Len(s) |-> <<k, Len(s)>>]

\* sorted_risk.index / len(sorted_risk)
CdfY(s) == [k \in 1..Len(s) |-> <<RangeIndex(Len(s))[k], Len(s)>>]

\* df_factors.abs().mean(): per factor, the sum of |loading| over the rows
Abs(x) == IF x < 0 THEN -x ELSE x
RECURSIVE SumAbs(_, _)
SumAbs(rows, j) ==
    IF rows = <<>> THEN 0 ELSE Abs(Head(rows)[j]) + SumAbs(Tail(rows), j)
factor_strength(df) == [j \in 1..2 |-> <<SumAbs(df.rows, j), Len(df.rows)>>]

\* ------------------------------------------------------------------- state
UnsetBar == [l \in {Labels[i] : i \in 1..3} |-> 0]

RunReset ==
    /\ df_merged' = None /\ df_sim' = None /\ df_factors' = None
    /\ errFile' = 0 /\ options' = "" /\ rendered' = {} /\ bodyRan' = FALSE
    /\ high_risk_prob' = <<0, 0>> /\ metric' = -2 /\ fig_bar' = UnsetBar
    /\ sorted_risk' = <<>> /\ cdf_y' = <<>>
    /\ total_records' = -1 /\ selected_factor' = 0

RECURSIVE Tables(_)
Tables(n) ==
    IF n = 0 THEN {<<>>}
    ELSE Tables(n - 1) \cup
         {Append(t, x) : t \in {u \in Tables(n - 1) : Len(u) = n - 1},
                         x \in RiskValues}

Init ==
    /\ fs \in [1..3 -> {"ok", "missing", "bad"}]
    /\ simRows \in Tables(MaxRows)
    /\ cache = [filled |-> FALSE, value |-> NoneTriple, msg |-> 0]
    /\ calls = 0 /\ bodyRuns = 0 /\ bodyRan = FALSE
    /\ pc = "idle"
    /\ df_merged = None /\ df_sim = None /\ df_factors = None
    /\ errFile = 0 /\ options = "" /\ rendered = {}
    /\ high_risk_prob = <<0, 0>> /\ metric = -2 /\ fig_bar = UnsetBar
    /\ sorted_risk = <<>> /\ cdf_y = <<>>
    /\ total_records = -1 /\ selected_factor = 0

\* ----------------------------------------------------------------- actions
\* a file is created, removed or damaged between two runs of the script
FileChange(i, st) ==
    /\ pc = "idle"
    /\ fs[i] # st
    /\ fs' = [fs EXCEPT ![i] = st]
    /\ UNCHANGED <<simRows, procVars, bodyRan, pc, tableVars, errFile,
                   options, rendered, aggVars>>

\* df_merged, df_sim, df_factors = load_data() under @st.cache_data: a hit
\* returns the stored value and replays the stored st.error; a miss runs the
\* body and stores what it returns; an exception is not stored and ends the run
CallLoadData ==
    /\ pc = "idle"
    /\ calls < MaxCalls
    /\ calls' = calls + 1
    /\ IF cache.filled
       THEN /\ df_merged' = cache.value[1]
            /\ df_sim' = cache.value[2]
            /\ df_factors' = cache.value[3]
            /\ errFile' = cache.msg
            /\ pc' = "loaded"
            /\ UNCHANGED <<cache, bodyRuns, bodyRan>>
       ELSE LET r == load_data(fs, simRows) IN
            /\ bodyRuns' = bodyRuns + 1
            /\ bodyRan' = TRUE
            /\ IF r.kind = "return"
               THEN /\ cache' = [filled |-> TRUE, value |-> r.value,
                                 msg |-> r.msg]
                    /\ df_merged' = r.value[1]
                    /\ df_sim' = r.value[2]
                    /\ df_factors' = r.value[3]
                    /\ errFile' = r.msg
                    /\ pc' = "loaded"
               ELSE /\ pc' = "crashed"
                    /\ UNCHANGED <<cache, tableVars, errFile>>
    /\ UNCHANGED <<envVars, options, rendered, aggVars>>

\* a variant that goes on to the sidebar whatever the load returned
CheckLoadedNoStop ==
    /\ pc = "loaded"
    /\ pc' = "sidebar"
    /\ UNCHANGED <<envVars, procVars, bodyRan, tableVars, errFile, options,
                   rendered, aggVars>>

\* if df_merged is None: st.stop()
CheckLoaded ==
    /\ pc = "loaded"
    /\ pc' = IF ~df_merged.present THEN "stopped" ELSE "sidebar"
    /\ UNCHANGED <<envVars, procVars, bodyRan, tableVars, errFile, options,
                   rendered, aggVars>>

\* options = st.sidebar.radio("Go to:", [...]): the user's current selection
Sidebar ==
    /\ pc = "sidebar"
    /\ \E i \in 1..3 : options' = MenuOptions[i]
    /\ pc' = "dispatch"
    /\ UNCHANGED <<envVars, procVars, bodyRan, tableVars, errFile, rendered,
                   aggVars>>

\* if options == "Data Overview": header, head of the table, the metrics
DataOverview ==
    /\ pc = "dispatch"
    /\ options = DataOverviewLabel
    /\ rendered' = rendered \cup {1}
    /\ IF df_merged.present
       THEN /\ total_records' = Len(df_merged.rows)
            /\ pc' = "footer"
       ELSE /\ pc' = "crashed"
            /\ UNCHANGED total_records
    /\ UNCHANGED <<envVars, procVars, bodyRan, tableVars, errFile, options,
                   high_risk_prob, metric, fig_bar, sorted_risk, cdf_y,
                   selected_factor>>

\* elif options == "Monte Carlo Simulation": the metrics, the derived
\* risk_category column, the bar chart of its counts and the CDF curve
MonteCarlo ==
    /\ pc = "dispatch"
    /\ options # DataOverviewLabel
    /\ options = MonteCarloLabel
    /\ rendered' = rendered \cup {2}
    /\ IF df_sim.present
       THEN /\ high_risk_prob' = HighRiskProb(df_sim.rows)
            /\ metric' = FormatF2(HighRiskProb(df_sim.rows))
            /\ df_sim' = AssignRiskCategory(df_sim)
            /\ fig_bar' = value_counts(AssignRiskCategory(df_sim).risk_category)
            /\ sorted_risk' = sort_values(AssignRiskCategory(df_sim).rows)
            /\ cdf_y' = CdfY(sort_values(AssignRiskCategory(df_sim).rows))
            /\ pc' = "footer"
       ELSE /\ pc' = "crashed"
            /\ UNCHANGED <<df_sim, high_risk_prob, metric, fig_bar,
                           sorted_risk, cdf_y>>
    /\ UNCHANGED <<envVars, procVars, bodyRan, df_merged, df_factors, errFile,
                   options, total_records, selected_factor>>

\* elif options == "Factor Analysis": heatmap, factor strengths, the
\* selected factor's contributions, the radar chart
FactorAnalysis ==
    /\ pc = "dispatch"
    /\ options # DataOverviewLabel
    /\ options # MonteCarloLabel
    /\ options = FactorAnalysisLabel
    /\ rendered' = rendered \cup {3}
    /\ IF df_factors.present
       THEN /\ \E j \in 1..2 : selected_factor' = j
            /\ pc' = "footer"
       ELSE /\ pc' = "crashed"
            /\ UNCHANGED selected_factor
    /\ UNCHANGED <<envVars, procVars, bodyRan, tableVars, errFile, options,
                   high_risk_prob, metric, fig_bar, sorted_risk, cdf_y,
                   total_records>>

\* where the footer can be reached from: after a pane, or straight from the
\* if / elif chain when no comparison matched
FooterFrom ==
    IF options \in {DataOverviewLabel, MonteCarloLabel, FactorAnalysisLabel}
    THEN {"footer"} ELSE {"footer", "dispatch"}

\* st.sidebar.markdown("---"); st.sidebar.info(...): the end of the script
Footer ==
    /\ pc \in FooterFrom
    /\ pc' = "done"
    /\ UNCHANGED <<envVars, procVars, bodyRan, tableVars, errFile, options,
                   rendered, aggVars>>

\* the script is run again from the top in the same process (a widget
\* interaction or a page reload); the script's globals start afresh
Rerun ==
    /\ pc \in {"done", "stopped", "crashed"}
    /\ calls < MaxCalls
    /\ pc' = "idle"
    /\ RunReset
    /\ UNCHANGED <<envVars, procVars>>

Next ==
    \/ \E i \in 1..3, st \in {"ok", "missing", "bad"} : FileChange(i, st)
    \/ CallLoadData
    \/ CheckLoaded
    \/ Sidebar
    \/ DataOverview
    \/ MonteCarlo
    \/ FactorAnalysis
    \/ Footer
    \/ Rerun

Spec == Init /\ [][Next]_vars

TypeOK ==
    /\ pc \in {"idle", "loaded", "sidebar", "dispatch", "footer", "done",
               "stopped", "crashed"}
    /\ calls \in 0..MaxCalls /\ bodyRuns \in 0..MaxCalls
    /\ rendered \subseteq 1..3

\* ------------------------------------------------------------- properties
LabelSet == {Labels[i] : i \in 1..3}

\* the Monte Carlo pane has run to its end in this run
MonteCarloShown == pc \in {"footer", "done"} /\ 2 \in rendered

HighCount == Cardinality({i \in 1..Len(df_sim.rows) : df_sim.rows[i] > 7})

AllPresent == df_merged.present /\ df_sim.present /\ df_factors.present
AllNone == ~df_merged.present /\ ~df_sim.present /\ ~df_factors.present

NoAggregate ==
    /\ high_risk_prob = <<0, 0>> /\ metric = -2 /\ fig_bar = UnsetBar
    /\ sorted_risk = <<>> /\ cdf_y = <<>>
    /\ total_records = -1 /\ selected_factor = 0

\* C1: on the Monte Carlo pane, when every congestion_risk lies in [0,1],
\* every row has a risk_category among Low, Medium, High and the three bar
\* counts sum to the number of rows.
C1_EveryRowBucketed ==
    (MonteCarloShown /\ \A i \in 1..Len(df_sim.rows) :
                            0 <= df_sim.rows[i] /\ df_sim.rows[i] <= 10)
    => /\ Len(df_sim.risk_category) = Len(df_sim.rows)
       /\ \A i \in 1..Len(df_sim.rows) : df_sim.risk_category[i] \in LabelSet
       /\ fig_bar["Low"] + fig_bar["Medium"] + fig_bar["High"]
              = Len(df_sim.rows)

\* C2: each row is labelled Low when 0 <= risk <= 0.4, Medium when
\* 0.4 < risk <= 0.7 and High when 0.7 < risk <= 1.0; so 0 and 0.4 are Low,
\* 0.7 is Medium and 1.0 is High.
C2_LabelRule ==
    MonteCarloShown
    => \A i \in 1..Len(df_sim.rows) :
          LET x == df_sim.rows[i] IN
          /\ (0 <= x /\ x <= 4) => df_sim.risk_category[i] = "Low"
          /\ (4 < x /\ x <= 7) => df_sim.risk_category[i] = "Medium"
          /\ (7 < x /\ x <= 10) => df_sim.risk_category[i] = "High"

\* C3: load_data never hands back a mix of loaded and absent tables, and a
\* run of its body that meets a missing file (the files read before it being
\* readable) returns the three outputs absent with an error message naming
\* that missing file.
C3_AllOrNothing ==
    /\ AllPresent \/ AllNone
    /\ cache.filled =>
          \/ \A i \in 1..3 : cache.value[i].present
          \/ \A i \in 1..3 : ~cache.value[i].present
    /\ (bodyRan /\ FirstFailing(fs) # 0 /\ fs[FirstFailing(fs)] = "missing")
       => /\ pc # "crashed"
          /\ AllNone
          /\ errFile = FirstFailing(fs)
          /\ cache.filled /\ cache.msg = errFile

C3_Witness ==
    /\ pc = "loaded" /\ bodyRan
    /\ fs[1] = "ok" /\ fs[2] = "missing" /\ fs[3] = "ok"
    /\ errFile = 2 /\ AllNone

\* C4: a present but unparsable file is handled like a missing one: the load
\* returns the three outputs absent with a message and nothing escapes
\* load_data as an unhandled exception.
C4_UnparsableHandled ==
    (bodyRan /\ FirstFailing(fs) # 0 /\ fs[FirstFailing(fs)] = "bad")
    => /\ pc # "crashed"
       /\ AllNone
       /\ errFile # 0

\* C5: in a run whose load gave absent tables the script stops before the
\* sidebar: no option is read, no pane is rendered, no aggregate is computed;
\* and a pane is rendered only when all three tables are loaded.
C5_HaltOnFailedLoad ==
    /\ (pc # "idle" /\ ~df_merged.present)
       => /\ pc \in {"loaded", "stopped", "crashed"}
          /\ options = "" /\ rendered = {} /\ NoAggregate
    /\ rendered # {} => AllPresent

C5_Witness == pc = "stopped" /\ errFile # 0 /\ rendered = {}

\* C6: the body of load_data runs on the first call only: whatever the
\* number of calls made in one process, the body has run at most once.
C6_BodyRunsOnce == bodyRuns <= 1

\* C7: once the tables are loaded, no step of a run changes the
\* TrafficWeatherRecord table or the FactorLoadingMatrix; the SimulationRun
\* table changes only by gaining the risk_category column on the Monte Carlo
\* pane, its congestion_risk values and row order staying as they were; the
\* other two panes change no table; the memoized tables never change.
C7_Frame ==
    [][/\ (AllPresent /\ pc' # "idle")
          => /\ df_merged' = df_merged
             /\ df_factors' = df_factors
             /\ df_sim'.rows = df_sim.rows
             /\ df_sim'.present
             /\ df_sim'.columns \subseteq df_sim.columns \cup {"risk_category"}
             /\ ~(pc = "dispatch" /\ options = MenuOptions[2])
                   => df_sim' = df_sim
       /\ cache.filled => cache' = cache]_vars

C7_Witness ==
    /\ MonteCarloShown
    /\ "risk_category" \in df_sim.columns
    /\ Len(df_sim.rows) >= 2 /\ df_sim.rows[1] > df_sim.rows[2]
    /\ df_sim.rows = cache.value[2].rows

\* C8 as stated: the displayed high-risk probability equals
\* 100 * (rows with congestion_risk > 0.7) / (rows).
C8_DisplayedExact ==
    (MonteCarloShown /\ Len(df_sim.rows) >= 1)
    => metric * Len(df_sim.rows) = 10000 * HighCount

\* C8 amended: the computed probability is 100 * (rows with congestion_risk
\* strictly above 0.7) / (rows), and the displayed figure is that value
\* rounded to two decimals.
C8_DisplayedRounded ==
    (MonteCarloShown /\ Len(df_sim.rows) >= 1)
    => LET n == Len(df_sim.rows)
           d == metric * n - 10000 * HighCount
       IN /\ high_risk_prob[2] > 0
          /\ high_risk_prob[1] * n = 100 * HighCount * high_risk_prob[2]
          /\ 2 * d <= n /\ -2 * d <= n

C8_Witness ==
    /\ MonteCarloShown
    /\ Len(df_sim.rows) = 3
    /\ \E i \in 1..3 : df_sim.rows[i] = 7
    /\ HighCount = 1 /\ metric = 3333

\* C9: the CDF's x values are the congestion_risk values in ascending order
\* (a permutation of the column), the y paired with the k-th smallest x
\* (k from 0) is k/n; y starts at 0, never decreases and ends at (n-1)/n.
C9_EmpiricalCdf ==
    (MonteCarloShown /\ Len(df_sim.rows) >= 1)
    => LET n == Len(df_sim.rows) IN
       /\ Len(sorted_risk) = n /\ Len(cdf_y) = n
       /\ \A k \in 1..(n - 1) : sorted_risk[k] <= sorted_risk[k + 1]
       /\ \A v \in RiskValues :
             Cardinality({i \in 1..n : sorted_risk[i] = v})
                 = Cardinality({i \in 1..n : df_sim.rows[i] = v})
       /\ \A k \in 1..n : cdf_y[k] = <<k - 1, n>>
       /\ \A k \in 1..(n - 1) : cdf_y[k][1] <= cdf_y[k + 1][1]
       /\ cdf_y[1][1] = 0 /\ cdf_y[n] = <<n - 1, n>>

C9_Witness ==
    /\ MonteCarloShown
    /\ Len(df_sim.rows) = 3
    /\ df_sim.rows[1] > df_sim.rows[3]
    /\ cdf_y[3] = <<2, 3>>

\* C10: the menu's three options are the three strings the if / elif chain
\* compares with, so for every selection exactly one pane runs and it is the
\* pane the option names; the chain is never fallen through.
C10_OnePanePerOption ==
    /\ pc = "dispatch" => FooterFrom = {"footer"}
    /\ pc \in {"footer", "done"}
       => \E i \in 1..3 : options = MenuOptions[i] /\ rendered = {i}

C10_Witness == pc = "done" /\ options = MenuOptions[2] /\ rendered = {2}

====
